---- MODULE Spec2Model ----
(***************************************************************************)
(* Model of claude_env_manager: the ClaudeEnvManager facade (api.py), the  *)
(* data model (models.py), the validators (utils/validation.py) and the    *)
(* file helpers (utils/io.py).                                             *)
(*                                                                         *)
(* The state is the two documents on disk (profile document, settings      *)
(* document), the settings backup file, the Manager's two caches and the   *)
(* wall clock.  `last` records the most recent Manager call (operation,    *)
(* error raised, value returned) so that postconditions can be stated.     *)
(* `tmpFile` is the temporary sibling of the profile document that         *)
(* safe_write_file writes, `wr` the position of a write of the profile     *)
(* document that is taken step by step.                                    *)
(***************************************************************************)
EXTENDS Integers, Sequences, FiniteSets, TLC

VARIABLES cfgFile, setFile, bakFile, cfgCache, setCache, now, faults, last,
          tmpFile, wr

vars == <<cfgFile, setFile, bakFile, cfgCache, setCache, now, faults, last,
          tmpFile, wr>>

(***************************************************************************)
(* Bounds of the model.                                                    *)
(***************************************************************************)
MaxClock == 1
MaxFaults == 1

(***************************************************************************)
(* Python values.                                                          *)
(***************************************************************************)
None == "<None>"

NoObject == [kind |-> "none"]

\* profile names the model uses; MoreNames adds a third
Names == {"dev", "prod"}
MoreNames == {"dev", "prod", "test"}

BadName == "-dev"

\* dict.update / {**a, **b}: keys of b win
DictUpdate(a, b) ==
    [k \in (DOMAIN a) \cup (DOMAIN b) |-> IF k \in DOMAIN b THEN b[k] ELSE a[k]]

\* dict.get(key, default)
DictGet(d, k, default) == IF k \in DOMAIN d THEN d[k] ELSE default

EmptyDict == [k \in {} |-> ""]

(***************************************************************************)
(* Strings.  TLC cannot look inside a string, so the string tests the code *)
(* performs (startswith, len, re.match, urlparse) are tabulated over the   *)
(* finite universe of keys and values the model uses.                      *)
(***************************************************************************)
required_vars ==
    <<"ANTHROPIC_BASE_URL", "ANTHROPIC_API_KEY", "ANTHROPIC_MODEL",
      "ANTHROPIC_SMALL_FAST_MODEL">>

RequiredSet == {required_vars[i] : i \in 1..Len(required_vars)}

\* key.startswith("ANTHROPIC_")
StartsWithAnthropic(key) == key \in RequiredSet \cup {"ANTHROPIC_AUTH_TOKEN"}

\* api_key.startswith("sk-")
StartsWithSk(v) == v \in {"sk-ant-1", "sk-ant-2", "sk-old", "sk-1"}

\* len(api_key) < 5
ShorterThan5(v) == v \in {"", "sk-1", "m1", "m2", "m3", "old"}

\* base_url.startswith(("http://", "https://"))
StartsWithHttp(v) == v \in {"https://x", "https://y", "https://old"}

\* urlparse(url): scheme (lower-cased by urlparse) and netloc
UrlScheme(v) ==
    CASE v \in {"https://x", "https://y", "https://old"} -> "https"
      [] v = "HTTPS://x" -> "https"
      [] v = "ftp://x" -> "ftp"
      [] OTHER -> ""

UrlNetloc(v) ==
    CASE v \in {"https://x", "HTTPS://x", "ftp://x"} -> "x"
      [] v = "https://y" -> "y"
      [] v = "https://old" -> "old"
      [] OTHER -> ""

\* re.match(r'^[a-zA-Z0-9_.\-/]+$', model)
MatchesModelRe(v) == v \in {"m1", "m2", "m3", "old", "sk-1", "sk-old", "sk-ant-1", "sk-ant-2"}

\* re.match(r'^[a-zA-Z0-9_-]+$', name)
MatchesNameRe(name) == name \in MoreNames \cup {BadName}

\* name.startswith(('-', '_')) or name.endswith(('-', '_'))
HyphenEnds(name) == name = BadName

(***************************************************************************)
(* utils/validation.py.  Each validator yields the error kind it raises,   *)
(* or None when it returns normally.                                       *)
(***************************************************************************)
validate_profile_name(name) ==
    IF name = "" THEN "ValidationError"
    ELSE IF ~MatchesNameRe(name) THEN "ValidationError"
    ELSE IF HyphenEnds(name) THEN "ValidationError"
    ELSE None

validate_api_key(api_key) ==
    IF api_key = "" THEN "ValidationError"
    ELSE IF ~StartsWithSk(api_key) THEN "ValidationError"
    ELSE IF ShorterThan5(api_key) THEN "ValidationError"
    ELSE None

validate_base_url(url) ==
    IF url = "" THEN "ValidationError"
    ELSE IF UrlScheme(url) = "" \/ UrlNetloc(url) = "" THEN "ValidationError"
    ELSE IF UrlScheme(url) \notin {"http", "https"} THEN "ValidationError"
    ELSE None

validate_model_name(model) ==
    IF model = "" THEN "ValidationError"
    ELSE IF ~MatchesModelRe(model) THEN "ValidationError"
    ELSE None

\* the per-variable checks of the partial branch
ValidateVar(var, value) ==
    IF value = "" THEN "ValidationError"
    ELSE IF var = "ANTHROPIC_API_KEY" THEN validate_api_key(value)
    ELSE IF var = "ANTHROPIC_BASE_URL" THEN validate_base_url(value)
    ELSE IF var \in {"ANTHROPIC_MODEL", "ANTHROPIC_SMALL_FAST_MODEL"}
         THEN validate_model_name(value)
    ELSE None

validate_environment_vars(env_vars, partial) ==
    IF DOMAIN env_vars = {} THEN "ValidationError"
    ELSE IF partial
         THEN IF \E var \in DOMAIN env_vars : ValidateVar(var, env_vars[var]) # None
              THEN "ValidationError" ELSE None
    ELSE IF \E var \in RequiredSet : var \notin DOMAIN env_vars \/ env_vars[var] = ""
         THEN "ValidationError"
    ELSE IF \/ validate_api_key(DictGet(env_vars, "ANTHROPIC_API_KEY", "")) # None
            \/ validate_base_url(DictGet(env_vars, "ANTHROPIC_BASE_URL", "")) # None
            \/ validate_model_name(DictGet(env_vars, "ANTHROPIC_MODEL", "")) # None
            \/ validate_model_name(DictGet(env_vars, "ANTHROPIC_SMALL_FAST_MODEL", "")) # None
         THEN "ValidationError"
    ELSE None

(***************************************************************************)
(* models.py: EnvironmentProfile.                                          *)
(***************************************************************************)
\* EnvironmentProfile.__post_init__: the error it raises, or None
PostInit(name, env) ==
    IF name = "" THEN "ValueError"
    ELSE IF \E var \in RequiredSet : var \notin DOMAIN env THEN "ValueError"
    ELSE IF ~StartsWithSk(DictGet(env, "ANTHROPIC_API_KEY", "")) THEN "ValueError"
    ELSE IF ~StartsWithHttp(DictGet(env, "ANTHROPIC_BASE_URL", "")) THEN "ValueError"
    ELSE IF \E m \in {DictGet(env, "ANTHROPIC_MODEL", ""),
                      DictGet(env, "ANTHROPIC_SMALL_FAST_MODEL", "")} :
                m # "" /\ ~MatchesModelRe(m)
         THEN "ValueError"
    ELSE None

\* datetime.isoformat() / datetime.fromisoformat(): a string carrying the
\* timestamp at full (microsecond) precision
IsoFormat(t) == <<"iso", t>>
FromIsoFormat(s) == s[2]

\* EnvironmentProfile.to_dict
ProfileToDict(p) ==
    [name |-> p.name, env |-> p.env, description |-> p.description,
     created |-> IsoFormat(p.created), modified |-> IsoFormat(p.modified)]

\* EnvironmentProfile.from_dict; t is the clock reading used by the default
\* factories of created/modified when the mapping lacks them
ProfileFromDict(d, t) ==
    IF ~({"name", "env"} \subseteq DOMAIN d) THEN [err |-> "TypeError"]
    ELSE IF PostInit(d.name, d.env) # None THEN [err |-> "ValueError"]
    ELSE [err |-> None,
          profile |->
            [name |-> d.name, env |-> d.env,
             description |-> DictGet(d, "description", None),
             created |-> IF "created" \in DOMAIN d THEN FromIsoFormat(d.created) ELSE t,
             modified |-> IF "modified" \in DOMAIN d THEN FromIsoFormat(d.modified) ELSE t]]

\* mutant of update_env: the env is replaced, not merged
update_env_replace(p, env_vars, t) ==
    IF t <= p.modified
    THEN [profile |-> [p EXCEPT !.env = env_vars, !.modified = t + 1], now |-> t + 1]
    ELSE [profile |-> [p EXCEPT !.env = env_vars, !.modified = t], now |-> t]

\* EnvironmentProfile.update_env: the profile and the clock after the call.
\* The clock is read once; if it is not later than `modified` the code
\* sleeps 1 ms (the clock advances by one tick) and reads it again.
update_env(p, env_vars, t) ==
    IF t <= p.modified
    THEN [profile |-> [p EXCEPT !.env = DictUpdate(p.env, env_vars), !.modified = t + 1],
          now |-> t + 1]
    ELSE [profile |-> [p EXCEPT !.env = DictUpdate(p.env, env_vars), !.modified = t],
          now |-> t]

(***************************************************************************)
(* models.py: ProfileConfig.                                               *)
(***************************************************************************)
EmptyConfig == [kind |-> "config", profiles |-> <<>>, default_profile |-> None]

ProfileNames(cfg) == {cfg.profiles[i].name : i \in 1..Len(cfg.profiles)}

\* mutant of IndexOf: the search never matches
IndexOfNever(cfg, name) == 0

\* index of the first profile called name, 0 when there is none
IndexOf(cfg, name) ==
    IF \E i \in 1..Len(cfg.profiles) : cfg.profiles[i].name = name
    THEN CHOOSE i \in 1..Len(cfg.profiles) :
            /\ cfg.profiles[i].name = name
            /\ \A j \in 1..(i - 1) : cfg.profiles[j].name # name
    ELSE 0

\* ProfileConfig.get_profile: the first profile called name, or NoObject
get_profile(cfg, name) ==
    IF IndexOf(cfg, name) = 0 THEN NoObject ELSE cfg.profiles[IndexOf(cfg, name)]

\* del self.profiles[i]
DelAt(seq, i) == [j \in 1..(Len(seq) - 1) |-> IF j < i THEN seq[j] ELSE seq[j + 1]]

\* ProfileConfig.add_profile: ValueError when the name is taken
add_profile(cfg, profile) ==
    IF IndexOf(cfg, profile.name) # 0 THEN [err |-> "ValueError", cfg |-> cfg]
    ELSE [err |-> None, cfg |-> [cfg EXCEPT !.profiles = Append(cfg.profiles, profile)]]

\* mutant of remove_profile: the default passes to the last remaining profile
remove_profile_last(cfg, name) ==
    LET i == IndexOf(cfg, name) IN
    IF i = 0 THEN cfg
    ELSE LET rest == DelAt(cfg.profiles, i) IN
         [cfg EXCEPT !.profiles = rest,
                     !.default_profile =
                        IF cfg.default_profile = name
                        THEN (IF Len(rest) > 0 THEN rest[Len(rest)].name ELSE None)
                        ELSE cfg.default_profile]

\* mutant of remove_profile: the default is not reassigned
remove_profile_keep_default(cfg, name) ==
    LET i == IndexOf(cfg, name) IN
    IF i = 0 THEN cfg ELSE [cfg EXCEPT !.profiles = DelAt(cfg.profiles, i)]

\* ProfileConfig.remove_profile: the collection after the call
remove_profile(cfg, name) ==
    LET i == IndexOf(cfg, name) IN
    IF i = 0 THEN cfg
    ELSE LET rest == DelAt(cfg.profiles, i) IN
         [cfg EXCEPT !.profiles = rest,
                     !.default_profile =
                        IF cfg.default_profile = name
                        THEN (IF Len(rest) > 0 THEN rest[1].name ELSE None)
                        ELSE cfg.default_profile]

\* ProfileConfig.to_dict
ConfigToDict(cfg) ==
    [profiles |-> [i \in 1..Len(cfg.profiles) |-> ProfileToDict(cfg.profiles[i])],
     default_profile |-> cfg.default_profile]

\* ProfileConfig.from_dict on a mapping
ConfigFromDict(data, t) ==
    LET ds == IF "profiles" \in DOMAIN data THEN data.profiles ELSE <<>>
        rs == [i \in 1..Len(ds) |-> ProfileFromDict(ds[i], t)]
    IN  IF \E i \in 1..Len(ds) : rs[i].err # None
        THEN [err |-> "ValueError"]
        ELSE [err |-> None,
              cfg |-> [kind |-> "config",
                       profiles |-> [i \in 1..Len(ds) |-> rs[i].profile],
                       default_profile |-> DictGet(data, "default_profile", None)]]

(***************************************************************************)
(* models.py: ClaudeSettings.                                              *)
(***************************************************************************)
DefaultSchema == "https://json.schemastore.org/claude-code-settings.json"

\* ClaudeSettings.__post_init__
SettingsPostInit(env, permissions, status_line) ==
    IF DOMAIN env = {} THEN "ValueError"
    ELSE IF ~({"allow", "deny"} \subseteq DOMAIN permissions) THEN "ValueError"
    ELSE IF "type" \notin DOMAIN status_line THEN "ValueError"
    ELSE None

\* ClaudeSettings.to_dict
SettingsToDict(s) ==
    [env |-> s.env, permissions |-> s.permissions, statusLine |-> s.status_line]
        @@ ("$schema" :> s.schema)

\* ClaudeSettings.from_dict
SettingsFromDict(data) ==
    IF ~({"env", "permissions", "statusLine"} \subseteq DOMAIN data)
        \/ ~(DOMAIN data \subseteq {"env", "permissions", "statusLine", "$schema"})
    THEN [err |-> "TypeError"]
    ELSE IF SettingsPostInit(data.env, data.permissions, data.statusLine) # None
    THEN [err |-> "ValueError"]
    ELSE [err |-> None,
          settings |-> [kind |-> "settings", env |-> data.env,
                        permissions |-> data.permissions,
                        status_line |-> data.statusLine,
                        schema |-> DictGet(data, "$schema", DefaultSchema)]]

(***************************************************************************)
(* utils/io.py.  A file is [kind |-> "absent"], or its text: "empty",      *)
(* "malformed" (not parseable), "null"/"scalar" (YAML that is no mapping)  *)
(* or "yaml"/"json" with the mapping the text denotes.  `failing` says     *)
(* whether the operating system refuses the call.                          *)
(***************************************************************************)
Absent == [kind |-> "absent"]
EmptyText == [kind |-> "empty"]
Malformed == [kind |-> "malformed"]

\* yaml.dump / json.dumps: the text of a mapping
YamlDump(data) == [kind |-> "yaml", data |-> data]
JsonDumps(data) == [kind |-> "json", data |-> data]

\* safe_write_file: temporary sibling, then replace
safe_write_file(file, content, failing) ==
    IF failing THEN [err |-> "FileOperationError", file |-> file]
    ELSE [err |-> None, file |-> content]

\* create_backup: the backup file after the call
create_backup(file, backup, failing) ==
    IF file.kind = "absent" THEN [err |-> None, backup |-> backup]
    ELSE IF failing THEN [err |-> "FileOperationError", backup |-> backup]
    ELSE [err |-> None, backup |-> file]

(***************************************************************************)
(* Errors: the exception class and the profile name its message quotes     *)
(* (None when the message quotes no profile).                              *)
(***************************************************************************)
NoErr == [kind |-> None, names |-> None]
Err(kind, name) == [kind |-> kind, names |-> name]

(***************************************************************************)
(* api.py: ClaudeEnvManager, document level.                               *)
(***************************************************************************)
\* mutant of save_config: the cache is set, the document is not written
save_config_cache_only(config, cache, file, fault) ==
    [err |-> NoErr, cache |-> config, file |-> file]

\* mutant of save_config: the document is created, never replaced
save_config_create_only(config, cache, file, fault) ==
    LET w == safe_write_file(file, YamlDump(ConfigToDict(config)), fault = "cfg_write") IN
    IF w.err # None
    THEN [err |-> Err("ConfigurationError", None), cache |-> cache, file |-> file]
    ELSE [err |-> NoErr, cache |-> config,
          file |-> IF file.kind = "absent" THEN w.file ELSE file]

\* save_config
save_config(config, cache, file, fault) ==
    LET w == safe_write_file(file, YamlDump(ConfigToDict(config)), fault = "cfg_write") IN
    IF w.err # None
    THEN [err |-> Err("ConfigurationError", None), cache |-> cache, file |-> file]
    ELSE [err |-> NoErr, cache |-> config, file |-> w.file]

\* load_config: the collection returned, and the cache and file afterwards
load_config(cache, file, fault, t) ==
    IF cache.kind # "none"
    THEN [err |-> NoErr, cfg |-> cache, cache |-> cache, file |-> file]
    ELSE IF file.kind = "absent"
    THEN LET s == save_config(EmptyConfig, cache, file, fault) IN
         IF s.err.kind # None
         THEN [err |-> Err("ConfigurationError", None), cfg |-> NoObject,
               cache |-> s.cache, file |-> s.file]
         ELSE [err |-> NoErr, cfg |-> EmptyConfig, cache |-> s.cache, file |-> s.file]
    ELSE IF fault = "cfg_read"
    THEN [err |-> Err("ConfigurationError", None), cfg |-> NoObject,
          cache |-> cache, file |-> file]
    ELSE IF file.kind = "empty"
    THEN [err |-> NoErr, cfg |-> EmptyConfig, cache |-> cache, file |-> file]
    ELSE IF file.kind = "malformed"
    THEN [err |-> Err("ConfigurationError", None), cfg |-> NoObject,
          cache |-> cache, file |-> file]
    ELSE IF file.kind = "null" \/ (file.kind = "yaml" /\ DOMAIN file.data = {})
    THEN [err |-> NoErr, cfg |-> EmptyConfig, cache |-> EmptyConfig, file |-> file]
    ELSE IF file.kind = "scalar"
    THEN [err |-> Err("ConfigurationError", None), cfg |-> NoObject,
          cache |-> cache, file |-> file]
    ELSE LET r == ConfigFromDict(file.data, t) IN
         IF r.err # None
         THEN [err |-> Err("ConfigurationError", None), cfg |-> NoObject,
               cache |-> cache, file |-> file]
         ELSE [err |-> NoErr, cfg |-> r.cfg, cache |-> r.cfg, file |-> file]

\* mutant of save_settings: a refused write is not reported
save_settings_swallow(settings, cache, file, backup, fault) ==
    LET b == create_backup(file, backup, fault = "set_backup") IN
    IF b.err # None
    THEN [err |-> NoErr, cache |-> cache, file |-> file, backup |-> b.backup]
    ELSE LET w == safe_write_file(file, JsonDumps(SettingsToDict(settings)),
                                  fault = "set_write") IN
         IF w.err # None
         THEN [err |-> NoErr, cache |-> cache, file |-> file, backup |-> b.backup]
         ELSE [err |-> NoErr, cache |-> settings, file |-> w.file, backup |-> b.backup]

\* mutant of save_settings: the backup is taken after the overwrite
save_settings_backup_after(settings, cache, file, backup, fault) ==
    LET w == safe_write_file(file, JsonDumps(SettingsToDict(settings)),
                             fault = "set_write") IN
    IF w.err # None
    THEN [err |-> Err("SettingsFileError", None), cache |-> cache, file |-> file,
          backup |-> backup]
    ELSE LET b == create_backup(w.file, backup, fault = "set_backup") IN
         IF b.err # None
         THEN [err |-> Err("SettingsFileError", None), cache |-> cache, file |-> w.file,
               backup |-> b.backup]
         ELSE [err |-> NoErr, cache |-> settings, file |-> w.file, backup |-> b.backup]

\* save_settings
save_settings(settings, cache, file, backup, fault) ==
    LET b == create_backup(file, backup, fault = "set_backup") IN
    IF b.err # None
    THEN [err |-> Err("SettingsFileError", None), cache |-> cache, file |-> file,
          backup |-> b.backup]
    ELSE LET w == safe_write_file(file, JsonDumps(SettingsToDict(settings)),
                                  fault = "set_write") IN
         IF w.err # None
         THEN [err |-> Err("SettingsFileError", None), cache |-> cache, file |-> file,
               backup |-> b.backup]
         ELSE [err |-> NoErr, cache |-> settings, file |-> w.file, backup |-> b.backup]

\* load_settings
load_settings(cache, file, fault) ==
    IF cache.kind # "none"
    THEN [err |-> NoErr, settings |-> cache, cache |-> cache]
    ELSE IF file.kind = "absent" \/ fault = "set_read" \/ file.kind = "empty"
            \/ file.kind = "malformed"
    THEN [err |-> Err("SettingsFileError", None), settings |-> NoObject, cache |-> cache]
    ELSE LET r == SettingsFromDict(file.data) IN
         IF r.err # None
         THEN [err |-> Err("SettingsFileError", None), settings |-> NoObject,
               cache |-> cache]
         ELSE [err |-> NoErr, settings |-> r.settings, cache |-> r.settings]

(***************************************************************************)
(* api.py: ClaudeEnvManager, operations.  `st` is the state a call starts  *)
(* in: [cfgCache, cfgFile, setCache, setFile, bakFile, now, tmpFile].     *)
(* Each                                                                    *)
(* operation yields the error it raises (NoErr when it returns) and the    *)
(* state it leaves.  A collection or settings object that is in a cache is *)
(* the very object the operation mutates, so an in-place change shows in   *)
(* the cache whether or not the save that follows succeeds.                *)
(***************************************************************************)
\* the state after load_config returned l
AfterLoad(st, l) ==
    [st EXCEPT !.cfgCache = l.cache, !.cfgFile = l.file,
               !.tmpFile = IF l.file # st.cfgFile THEN Absent ELSE @]

\* save_config(config) called where load_config returned l: config is the
\* mutated form of l.cfg, which is the cached object iff the cache is loaded
SaveMutated(st, l, config, fault) ==
    LET s == save_config(config, IF l.cache.kind # "none" THEN config ELSE l.cache,
                         l.file, fault)
    IN  [err |-> s.err,
         st |-> [st EXCEPT !.cfgCache = s.cache, !.cfgFile = s.file,
                           !.tmpFile = IF s.err = NoErr THEN Absent ELSE @]]

\* mutant of FirstProfileDefault: no new profile becomes the default
FirstProfileDefaultNever(config, name) == config

\* mutant of FirstProfileDefault: every new profile becomes the default
FirstProfileDefaultAlways(config, name) == [config EXCEPT !.default_profile = name]

\* create_profile, "If this is the first profile, set as default"
FirstProfileDefault(config, name) ==
    IF Len(config.profiles) = 1 THEN [config EXCEPT !.default_profile = name] ELSE config

\* mutant of AlreadyExists: the existence check is skipped
AlreadyExistsNever(config, name) == FALSE

\* create_profile, `if config.get_profile(name)`
AlreadyExists(config, name) == IndexOf(config, name) # 0

\* create_profile
create_profile(name, env_vars, description, st, fault) ==
    IF validate_profile_name(name) # None
    THEN [err |-> Err("ValidationError", None), st |-> st]
    ELSE IF validate_environment_vars(env_vars, FALSE) # None
    THEN [err |-> Err("ValidationError", None), st |-> st]
    ELSE LET l == load_config(st.cfgCache, st.cfgFile, fault, st.now) IN
         IF l.err.kind # None THEN [err |-> l.err, st |-> AfterLoad(st, l)]
         ELSE IF AlreadyExists(l.cfg, name)
         THEN [err |-> Err("ProfileExistsError", name), st |-> AfterLoad(st, l)]
         ELSE IF PostInit(name, env_vars) # None
         THEN [err |-> Err("InvalidProfileError", None), st |-> AfterLoad(st, l)]
         ELSE LET profile == [name |-> name, env |-> env_vars,
                              description |-> description,
                              created |-> st.now, modified |-> st.now]
                  a == add_profile(l.cfg, profile)
              IN  IF a.err # None
                  THEN [err |-> Err("ValueError", name), st |-> AfterLoad(st, l)]
                  ELSE SaveMutated(st, l, FirstProfileDefault(a.cfg, name), fault)

\* update_profile; env_vars = EmptyDict stands for both None and {} (the
\* code tests `if env_vars:`), description = None for "not given"
update_profile(name, env_vars, description, st, fault) ==
    LET l == load_config(st.cfgCache, st.cfgFile, fault, st.now) IN
    IF l.err.kind # None THEN [err |-> l.err, st |-> AfterLoad(st, l)]
    ELSE IF IndexOf(l.cfg, name) = 0
    THEN [err |-> Err("ProfileNotFoundError", name), st |-> AfterLoad(st, l)]
    ELSE IF DOMAIN env_vars # {} /\ validate_environment_vars(env_vars, TRUE) # None
    THEN [err |-> Err("ValidationError", None), st |-> AfterLoad(st, l)]
    ELSE LET i == IndexOf(l.cfg, name)
             u == IF DOMAIN env_vars # {}
                  THEN update_env(l.cfg.profiles[i], env_vars, st.now)
                  ELSE [profile |-> l.cfg.profiles[i], now |-> st.now]
             p == IF description # None
                  THEN [u.profile EXCEPT !.description = description]
                  ELSE u.profile
             config == [l.cfg EXCEPT !.profiles[i] = p]
         IN  SaveMutated([st EXCEPT !.now = u.now], l, config, fault)

\* delete_profile
delete_profile(name, st, fault) ==
    LET l == load_config(st.cfgCache, st.cfgFile, fault, st.now) IN
    IF l.err.kind # None THEN [err |-> l.err, st |-> AfterLoad(st, l)]
    ELSE IF IndexOf(l.cfg, name) = 0
    THEN [err |-> Err("ProfileNotFoundError", name), st |-> AfterLoad(st, l)]
    ELSE SaveMutated(st, l, remove_profile(l.cfg, name), fault)

\* set_default_profile
set_default_profile(name, st, fault) ==
    LET l == load_config(st.cfgCache, st.cfgFile, fault, st.now) IN
    IF l.err.kind # None THEN [err |-> l.err, st |-> AfterLoad(st, l)]
    ELSE IF IndexOf(l.cfg, name) = 0
    THEN [err |-> Err("ProfileNotFoundError", name), st |-> AfterLoad(st, l)]
    ELSE SaveMutated(st, l, [l.cfg EXCEPT !.default_profile = name], fault)

\* mutant of ApplyMerge: the timeout is not carried over from the settings
\* env, and the default is set when the settings env lacks the key
ApplyMergeTimeoutFromSettings(profile_env, settings_env) ==
    LET keep == {k \in DOMAIN settings_env :
                   ~StartsWithAnthropic(k) /\ k # "API_TIMEOUT_MS"}
        new_env == DictUpdate(profile_env, [k \in keep |-> settings_env[k]])
    IN  IF "API_TIMEOUT_MS" \notin DOMAIN settings_env
        THEN DictUpdate(new_env, "API_TIMEOUT_MS" :> "600000")
        ELSE new_env

\* mutant of ApplyMerge: every key of the settings env is carried over
ApplyMergeKeepAll(profile_env, settings_env) ==
    LET new_env == DictUpdate(profile_env, settings_env)
    IN  IF "API_TIMEOUT_MS" \notin DOMAIN new_env
        THEN DictUpdate(new_env, "API_TIMEOUT_MS" :> "600000")
        ELSE new_env

\* apply_profile, the env it builds: the profile's env, then every key of
\* the settings env that does not start with "ANTHROPIC_", then the default
\* timeout if the key is still missing
ApplyMerge(profile_env, settings_env) ==
    LET keep == {k \in DOMAIN settings_env : ~StartsWithAnthropic(k)}
        new_env == DictUpdate(profile_env, [k \in keep |-> settings_env[k]])
    IN  IF "API_TIMEOUT_MS" \notin DOMAIN new_env
        THEN DictUpdate(new_env, "API_TIMEOUT_MS" :> "600000")
        ELSE new_env

\* mutant of ApplySetDefault: the default is left as it was
ApplySetDefaultSkipped(config, name) == config

\* apply_profile, `config.default_profile = name`
ApplySetDefault(config, name) == [config EXCEPT !.default_profile = name]

\* apply_profile, the body of its try block
ApplyBody(name, st, fault) ==
    LET l == load_config(st.cfgCache, st.cfgFile, fault, st.now)
        st1 == AfterLoad(st, l)
    IN
    IF l.err.kind # None THEN [err |-> l.err, st |-> st1]
    ELSE IF IndexOf(l.cfg, name) = 0
    THEN [err |-> Err("ProfileNotFoundError", name), st |-> st1]
    ELSE LET profile == get_profile(l.cfg, name)
             ls == load_settings(st.setCache, st.setFile, fault)
         IN
         IF ls.err.kind # None THEN [err |-> ls.err, st |-> [st1 EXCEPT !.setCache = ls.cache]]
         ELSE LET settings == [ls.settings EXCEPT !.env = ApplyMerge(profile.env, @)]
                  ss == save_settings(settings, settings, st.setFile, st.bakFile, fault)
                  st2 == [st1 EXCEPT !.setCache = ss.cache, !.setFile = ss.file,
                                     !.bakFile = ss.backup]
              IN
              IF ss.err.kind # None THEN [err |-> ss.err, st |-> st2]
              ELSE LET l2 == load_config(st2.cfgCache, st2.cfgFile, fault, st.now) IN
                   IF l2.err.kind # None THEN [err |-> l2.err, st |-> AfterLoad(st2, l2)]
                   ELSE SaveMutated(st2, l2, ApplySetDefault(l2.cfg, name), fault)

\* mutant of WrapApplyError: a SettingsFileError is re-raised as it is
WrapApplyErrorOnlyOther(err, name) ==
    IF err.kind = None THEN NoErr
    ELSE IF err.kind = "SettingsFileError" THEN err
    ELSE Err("SettingsFileError", name)

\* apply_profile, `except Exception as e: raise SettingsFileError(...)`
WrapApplyError(err, name) ==
    IF err.kind # None THEN Err("SettingsFileError", name) ELSE NoErr

\* apply_profile
apply_profile(name, st, fault) ==
    LET r == ApplyBody(name, st, fault) IN
    [err |-> WrapApplyError(r.err, name), st |-> r.st]

\* what a call returns: a string, a boolean, or None (NoObject)
Str(v) == [kind |-> "str", value |-> v]
Bool(v) == [kind |-> "bool", value |-> v]

\* mutant of FirstMatching: the profiles are matched on the fast model
FirstMatchingFastModel(profiles, model) ==
    LET matches == {i \in 1..Len(profiles) :
                      DictGet(profiles[i].env, "ANTHROPIC_SMALL_FAST_MODEL", None) = "m3"}
    IN  IF matches = {} THEN NoObject
        ELSE Str(profiles[CHOOSE i \in matches : \A j \in matches : i <= j].name)

\* mutant of FirstMatching: the last matching profile is taken
LastMatching(profiles, model) ==
    LET matches == {i \in 1..Len(profiles) :
                      DictGet(profiles[i].env, "ANTHROPIC_MODEL", None) = model}
    IN  IF matches = {} THEN NoObject
        ELSE Str(profiles[CHOOSE i \in matches : \A j \in matches : j <= i].name)

\* get_current_profile, the loop over config.profiles: the name of the first
\* profile whose ANTHROPIC_MODEL is model (None when the key is missing)
RECURSIVE FirstMatching(_, _)
FirstMatching(profiles, model) ==
    IF profiles = <<>> THEN NoObject
    ELSE IF DictGet(Head(profiles).env, "ANTHROPIC_MODEL", None) = model
    THEN Str(Head(profiles).name)
    ELSE FirstMatching(Tail(profiles), model)

\* get_current_profile, the body of its try block
CurrentProfileBody(st, fault) ==
    LET ls == load_settings(st.setCache, st.setFile, fault)
        st1 == [st EXCEPT !.setCache = ls.cache]
    IN
    IF ls.err.kind # None THEN [err |-> ls.err, ret |-> NoObject, st |-> st1]
    ELSE LET l == load_config(st1.cfgCache, st1.cfgFile, fault, st.now) IN
         IF l.err.kind # None
         THEN [err |-> l.err, ret |-> NoObject, st |-> AfterLoad(st1, l)]
         ELSE [err |-> NoErr,
               ret |-> FirstMatching(l.cfg.profiles,
                                     DictGet(ls.settings.env, "ANTHROPIC_MODEL", None)),
               st |-> AfterLoad(st1, l)]

\* get_current_profile: `except Exception: return None`
get_current_profile(st, fault) ==
    LET r == CurrentProfileBody(st, fault) IN
    IF r.err.kind # None THEN [err |-> NoErr, ret |-> NoObject, st |-> r.st] ELSE r

\* validate_profile: ProfileNotFoundError and ValueError give False, any
\* other error of get_profile escapes
validate_profile(name, st, fault) ==
    LET l == load_config(st.cfgCache, st.cfgFile, fault, st.now) IN
    IF l.err.kind # None THEN [err |-> l.err, ret |-> NoObject, st |-> AfterLoad(st, l)]
    ELSE IF IndexOf(l.cfg, name) = 0
    THEN [err |-> NoErr, ret |-> Bool(FALSE), st |-> AfterLoad(st, l)]
    ELSE [err |-> NoErr, ret |-> Bool(TRUE), st |-> AfterLoad(st, l)]

(***************************************************************************)
(* Inputs.                                                                 *)
(***************************************************************************)
\* a profile env with the four required keys only
EnvA ==
    [ANTHROPIC_BASE_URL |-> "https://x", ANTHROPIC_API_KEY |-> "sk-ant-1",
     ANTHROPIC_MODEL |-> "m1", ANTHROPIC_SMALL_FAST_MODEL |-> "m3"]

\* a partial env for update_profile: overrides one key, adds two
UpdA ==
    [ANTHROPIC_MODEL |-> "m2", API_TIMEOUT_MS |-> "30000", OTHER_VAR |-> "mine"]

\* a profile env that also sets keys outside the ANTHROPIC_ namespace
EnvB == DictUpdate(EnvA, UpdA)

\* a second profile env, with another model
EnvC == [EnvA EXCEPT !.ANTHROPIC_MODEL = "m2"]

\* rejected by validate_environment_vars: a required key is missing
EnvNoFast ==
    [ANTHROPIC_BASE_URL |-> "https://x", ANTHROPIC_API_KEY |-> "sk-ant-1",
     ANTHROPIC_MODEL |-> "m1"]

\* accepted by validate_environment_vars (urlparse lower-cases the scheme),
\* rejected by EnvironmentProfile.__post_init__ (startswith is exact)
EnvUpperUrl == [EnvA EXCEPT !.ANTHROPIC_BASE_URL = "HTTPS://x"]

\* accepted by the partial validation (urlparse lower-cases the scheme); the
\* resulting env is rejected by EnvironmentProfile.__post_init__
UpdUpperUrl == [ANTHROPIC_BASE_URL |-> "HTTPS://x"]

\* rejected by the partial validation: an empty value
UpdEmptyValue == [ANTHROPIC_MODEL |-> ""]

\* the inputs a specification draws from: the names profiles are created
\* under and operated on, the env_vars and description arguments of
\* create_profile and of update_profile, and the I/O calls that may fail
AllFaults == {"none", "cfg_read", "cfg_write", "set_read", "set_backup", "set_write"}

CoreInputs ==
    [createNames |-> Names \cup {BadName},
     names |-> Names,
     createEnvs |-> {EnvA, EnvNoFast, EnvUpperUrl},
     createDescriptions |-> {None},
     updateEnvs |-> {EmptyDict, UpdA, UpdEmptyValue},
     updateDescriptions |-> {None},
     faults |-> {"none"}]

FaultInputs ==
    [createNames |-> {"dev"},
     names |-> Names,
     createEnvs |-> {EnvA},
     createDescriptions |-> {"d"},
     updateEnvs |-> {EmptyDict, UpdA},
     updateDescriptions |-> {None, ""},
     faults |-> AllFaults]

\* three profiles, so that collection order shows
OrderInputs ==
    [createNames |-> MoreNames,
     names |-> MoreNames,
     createEnvs |-> {EnvA},
     createDescriptions |-> {None},
     updateEnvs |-> {EmptyDict},
     updateDescriptions |-> {None},
     faults |-> {"none"}]

OldEnv ==
    [ANTHROPIC_BASE_URL |-> "https://old", ANTHROPIC_API_KEY |-> "sk-old",
     ANTHROPIC_MODEL |-> "old", ANTHROPIC_SMALL_FAST_MODEL |-> "old"]

Permissions1 == [allow |-> <<"Bash">>, deny |-> <<>>]
StatusLine1 == [type |-> "command", command |-> "ccline"]

\* settings documents found on disk when the Manager starts
SettingsDoc1 ==
    JsonDumps([env |-> DictUpdate(OldEnv, [ANTHROPIC_AUTH_TOKEN |-> "tok",
                                           OTHER_VAR |-> "keep-me"]),
               permissions |-> Permissions1, statusLine |-> StatusLine1]
              @@ ("$schema" :> DefaultSchema))

InitSettingsFiles == {Absent, Malformed, SettingsDoc1}

(***************************************************************************)
(* State machine.                                                          *)
(***************************************************************************)
St == [cfgCache |-> cfgCache, cfgFile |-> cfgFile, setCache |-> setCache,
       setFile |-> setFile, bakFile |-> bakFile, now |-> now, tmpFile |-> tmpFile]

\* no write of the profile document is under way
Idle == [pc |-> "idle"]

\* a call runs from start to end: no other call starts while a write is
\* under way (the Manager is single-threaded)
SetState(s) ==
    /\ s.now <= MaxClock
    /\ wr = Idle
    /\ wr' = wr
    /\ tmpFile' = s.tmpFile
    /\ cfgCache' = s.cfgCache
    /\ cfgFile' = s.cfgFile
    /\ setCache' = s.setCache
    /\ setFile' = s.setFile
    /\ bakFile' = s.bakFile
    /\ now' = s.now

\* the operating system refuses at most MaxFaults calls in a run
Inject(fault) ==
    IF fault = "none" THEN faults' = faults
    ELSE faults < MaxFaults /\ faults' = faults + 1

Call(op, err, ret) == [op |-> op, err |-> err, ret |-> ret]

\* ClaudeEnvManager.__init__ over the files found on disk
Init ==
    /\ cfgFile \in {Absent, EmptyText}
    /\ setFile \in InitSettingsFiles
    /\ bakFile = Absent
    /\ cfgCache = NoObject
    /\ setCache = NoObject
    /\ tmpFile = Absent
    /\ wr = Idle
    /\ now = 0
    /\ faults = 0
    /\ last = Call("init", NoErr, NoObject)

LoadConfig(fault) ==
    \E l \in {load_config(cfgCache, cfgFile, fault, now)} :
    /\ Inject(fault)
    /\ SetState(AfterLoad(St, l))
    /\ last' = Call("load_config", l.err, l.cfg)

LoadSettings(fault) ==
    \E l \in {load_settings(setCache, setFile, fault)} :
    /\ Inject(fault)
    /\ SetState([St EXCEPT !.setCache = l.cache])
    /\ last' = Call("load_settings", l.err, l.settings)

CreateProfile(name, env_vars, description, fault) ==
    \E r \in {create_profile(name, env_vars, description, St, fault)} :
    /\ Inject(fault)
    /\ SetState(r.st)
    /\ last' = Call("create_profile", r.err, NoObject)

UpdateProfile(name, env_vars, description, fault) ==
    \E r \in {update_profile(name, env_vars, description, St, fault)} :
    /\ Inject(fault)
    /\ SetState(r.st)
    /\ last' = Call("update_profile", r.err, NoObject)

DeleteProfile(name, fault) ==
    \E r \in {delete_profile(name, St, fault)} :
    /\ Inject(fault)
    /\ SetState(r.st)
    /\ last' = Call("delete_profile", r.err, NoObject)

SetDefaultProfile(name, fault) ==
    \E r \in {set_default_profile(name, St, fault)} :
    /\ Inject(fault)
    /\ SetState(r.st)
    /\ last' = Call("set_default_profile", r.err, NoObject)

ApplyProfile(name, fault) ==
    \E r \in {apply_profile(name, St, fault)} :
    /\ Inject(fault)
    /\ SetState(r.st)
    /\ last' = Call("apply_profile", r.err, NoObject)

\* clear_cache
ClearCache ==
    /\ wr = Idle
    /\ cfgCache' = NoObject
    /\ setCache' = NoObject
    /\ last' = Call("clear_cache", NoErr, NoObject)
    /\ UNCHANGED <<cfgFile, setFile, bakFile, now, faults, tmpFile, wr>>

GetCurrentProfile(fault) ==
    \E r \in {get_current_profile(St, fault)} :
    /\ Inject(fault)
    /\ SetState(r.st)
    /\ last' = Call("get_current_profile", r.err, r.ret)

ValidateProfile(name, fault) ==
    \E r \in {validate_profile(name, St, fault)} :
    /\ Inject(fault)
    /\ SetState(r.st)
    /\ last' = Call("validate_profile", r.err, r.ret)

NextOver(I) ==
    \/ \E f \in I.faults : LoadConfig(f)
    \/ \E f \in I.faults : LoadSettings(f)
    \/ \E n \in I.createNames, e \in I.createEnvs, d \in I.createDescriptions,
          f \in I.faults : CreateProfile(n, e, d, f)
    \/ \E n \in I.names, e \in I.updateEnvs, d \in I.updateDescriptions,
          f \in I.faults : UpdateProfile(n, e, d, f)
    \/ \E n \in I.names, f \in I.faults : DeleteProfile(n, f)
    \/ \E n \in I.names, f \in I.faults : SetDefaultProfile(n, f)
    \/ \E n \in I.names, f \in I.faults : ApplyProfile(n, f)
    \/ ClearCache

\* the Manager over documents it wrote itself, the file system never failing
Next == NextOver(CoreInputs)

Spec == Init /\ [][Next]_vars

\* the Manager with the file system refusing up to MaxFaults calls
InitFault ==
    /\ Init
    /\ cfgFile = Absent

NextFault == NextOver(FaultInputs)

SpecFault == InitFault /\ [][NextFault]_vars

\* the Manager over up to three profiles
InitOrder ==
    /\ Init
    /\ setFile = SettingsDoc1

NextOrder == NextOver(OrderInputs)

SpecOrder == InitOrder /\ [][NextOrder]_vars

\* profile documents found on disk that the Manager did not write: one
\* naming a default and holding no profile, one holding profile "dev" as
\* the default
DocDefaultOnly == YamlDump([default_profile |-> "dev"])

DocOneProfile ==
    YamlDump([profiles |-> <<[name |-> "dev", env |-> EnvA,
                              created |-> IsoFormat(0), modified |-> IsoFormat(0)]>>,
              default_profile |-> "dev"])

DocInputs ==
    [createNames |-> Names,
     names |-> Names,
     createEnvs |-> {EnvA},
     createDescriptions |-> {None},
     updateEnvs |-> {EmptyDict},
     updateDescriptions |-> {""},
     faults |-> {"none", "cfg_write"}]

\* the Manager started over a profile document written by hand
InitDoc ==
    /\ cfgFile \in {Absent, DocDefaultOnly, DocOneProfile}
    /\ setFile = SettingsDoc1
    /\ bakFile = Absent
    /\ cfgCache = NoObject
    /\ setCache = NoObject
    /\ tmpFile = Absent
    /\ wr = Idle
    /\ now = 0
    /\ faults = 0
    /\ last = Call("init", NoErr, NoObject)

NextDoc == NextOver(DocInputs)

SpecDoc == InitDoc /\ [][NextDoc]_vars

\* two profiles with different envs, the writes of apply_profile refusable
ApplyInputs ==
    [createNames |-> Names,
     names |-> Names,
     createEnvs |-> {EnvA, EnvC},
     createDescriptions |-> {None},
     updateEnvs |-> {EmptyDict},
     updateDescriptions |-> {None},
     faults |-> {"none", "cfg_write", "set_write"}]

NextApply == NextOver(ApplyInputs)

SpecApply == InitOrder /\ [][NextApply]_vars

\* a profile document written by hand whose profile has an empty model
DocEmptyModel ==
    YamlDump([profiles |-> <<[name |-> "dev",
                              env |-> [EnvA EXCEPT !.ANTHROPIC_MODEL = ""],
                              created |-> IsoFormat(0), modified |-> IsoFormat(0)]>>,
              default_profile |-> "dev"])

QueryInputs ==
    [createNames |-> Names,
     names |-> Names,
     createEnvs |-> {EnvA},
     createDescriptions |-> {None},
     updateEnvs |-> {EmptyDict},
     updateDescriptions |-> {None},
     faults |-> {"none", "cfg_read", "set_read"}]

\* the Manager with its two queries
InitQuery ==
    /\ cfgFile = DocEmptyModel
    /\ setFile = SettingsDoc1
    /\ bakFile = Absent
    /\ cfgCache = NoObject
    /\ setCache = NoObject
    /\ tmpFile = Absent
    /\ wr = Idle
    /\ now = 0
    /\ faults = 0
    /\ last = Call("init", NoErr, NoObject)

NextQuery ==
    \/ NextOver(QueryInputs)
    \/ \E f \in QueryInputs.faults : GetCurrentProfile(f)
    \/ \E n \in QueryInputs.names, f \in QueryInputs.faults : ValidateProfile(n, f)

SpecQuery == InitQuery /\ [][NextQuery]_vars

\* updates that change the base URL
RoundInputs ==
    [createNames |-> Names,
     names |-> Names,
     createEnvs |-> {EnvA},
     createDescriptions |-> {None},
     updateEnvs |-> {EmptyDict, UpdUpperUrl},
     updateDescriptions |-> {None},
     faults |-> {"none"}]

NextRound == NextOver(RoundInputs)

SpecRound == InitOrder /\ [][NextRound]_vars

\* documents another program writes while the Manager runs: a profile
\* document holding one profile described as "external", and a settings
\* document with the variable EXT_VAR
DocExternal ==
    YamlDump([profiles |-> <<[name |-> "prod", env |-> EnvA, description |-> "external",
                              created |-> IsoFormat(0), modified |-> IsoFormat(0)]>>,
              default_profile |-> "prod"])

SettingsExternal ==
    JsonDumps([env |-> DictUpdate(OldEnv, [EXT_VAR |-> "external"]),
               permissions |-> Permissions1, statusLine |-> StatusLine1]
              @@ ("$schema" :> DefaultSchema))

ExtInputs ==
    [createNames |-> Names,
     names |-> Names,
     createEnvs |-> {EnvA},
     createDescriptions |-> {None},
     updateEnvs |-> {EmptyDict},
     updateDescriptions |-> {None},
     faults |-> {"none"}]

InitExt ==
    /\ Init
    /\ cfgFile = Absent
    /\ setFile = SettingsDoc1

\* the other program replaces the profile document
ExternalWriteConfig ==
    /\ cfgFile # DocExternal
    /\ SetState([St EXCEPT !.cfgFile = DocExternal])
    /\ faults' = faults
    /\ last' = Call("external_write_config", NoErr, NoObject)

\* the other program replaces the settings document
ExternalWriteSettings ==
    /\ setFile # SettingsExternal
    /\ SetState([St EXCEPT !.setFile = SettingsExternal])
    /\ faults' = faults
    /\ last' = Call("external_write_settings", NoErr, NoObject)

NextExt ==
    \/ NextOver(ExtInputs)
    \/ ExternalWriteConfig
    \/ ExternalWriteSettings

SpecExt == InitExt /\ [][NextExt]_vars

\* one profile, updated while the wall clock moves
ClockInputs ==
    [createNames |-> {"dev"},
     names |-> {"dev"},
     createEnvs |-> {EnvA},
     createDescriptions |-> {None},
     updateEnvs |-> {EmptyDict, UpdA},
     updateDescriptions |-> {None},
     faults |-> {"none"}]

\* time passes between two calls: datetime.now() reads later
Tick ==
    /\ SetState([St EXCEPT !.now = now + 1])
    /\ faults' = faults
    /\ last' = Call("tick", NoErr, NoObject)

\* the wall clock is set back between two calls (datetime.now() is naive
\* local time: a clock correction, the end of daylight saving time)
ClockBack ==
    /\ now > 0
    /\ SetState([St EXCEPT !.now = now - 1])
    /\ faults' = faults
    /\ last' = Call("clock_back", NoErr, NoObject)

NextClock ==
    \/ NextOver(ClockInputs)
    \/ Tick
    \/ ClockBack

SpecClock == InitOrder /\ [][NextClock]_vars

\* settings objects handed to save_settings by a caller
SettingsA ==
    [kind |-> "settings", env |-> EnvA, permissions |-> Permissions1,
     status_line |-> StatusLine1, schema |-> DefaultSchema]

SettingsB == [SettingsA EXCEPT !.env = OldEnv]

BackupInputs ==
    [createNames |-> {"dev"},
     names |-> {"dev"},
     createEnvs |-> {EnvA},
     createDescriptions |-> {None},
     updateEnvs |-> {EmptyDict},
     updateDescriptions |-> {None},
     faults |-> {"none", "set_write", "set_backup"}]

SaveSettings(settings, fault) ==
    \E r \in {save_settings(settings, setCache, setFile, bakFile, fault)} :
    /\ Inject(fault)
    /\ SetState([St EXCEPT !.setCache = r.cache, !.setFile = r.file,
                          !.bakFile = r.backup])
    /\ last' = Call("save_settings", r.err, NoObject)

\* the Manager started with or without a settings document
InitBackup ==
    /\ Init
    /\ cfgFile = Absent
    /\ setFile \in {Absent, SettingsDoc1}

NextBackup ==
    \/ NextOver(BackupInputs)
    \/ \E s \in {SettingsA, SettingsB}, f \in BackupInputs.faults : SaveSettings(s, f)

SpecBackup == InitBackup /\ [][NextBackup]_vars

\* profile documents whose YAML is no mapping: null (also "~", "{}", "[]",
\* "0": every falsy value), and a truthy scalar or list ("hello", "- a")
NullDoc == [kind |-> "null"]
ScalarDoc == [kind |-> "scalar"]

LoadInputs ==
    [createNames |-> {"dev"},
     names |-> {"dev"},
     createEnvs |-> {EnvA},
     createDescriptions |-> {None},
     updateEnvs |-> {EmptyDict, UpdA},
     updateDescriptions |-> {None},
     faults |-> {"none"}]

\* the Manager started over a profile document that holds no mapping
InitLoad ==
    /\ cfgFile \in {EmptyText, NullDoc, ScalarDoc, Malformed}
    /\ setFile = SettingsDoc1
    /\ bakFile = Absent
    /\ cfgCache = NoObject
    /\ setCache = NoObject
    /\ tmpFile = Absent
    /\ wr = Idle
    /\ now = 0
    /\ faults = 0
    /\ last = Call("init", NoErr, NoObject)

NextLoad == NextOver(LoadInputs)

SpecLoad == InitLoad /\ [][NextLoad]_vars

(***************************************************************************)
(* utils/io.py: safe_write_file taken step by step, for a write of the     *)
(* profile document by save_config(config): the temporary file is opened   *)
(* (created or truncated), the text is written to it in one or two pieces, *)
(* the file is closed, then it replaces the target.  The process can be    *)
(* interrupted between any two steps.                                      *)
(***************************************************************************)
\* collections a caller hands to save_config
ConfigOne ==
    [kind |-> "config",
     profiles |-> <<[name |-> "dev", env |-> EnvA, description |-> None,
                     created |-> 0, modified |-> 0]>>,
     default_profile |-> "dev"]

WriteConfigs == {EmptyConfig, ConfigOne}

\* a file holding the beginning of a text and not its end
Partial(content) == [kind |-> "partial", of |-> content]

\* mutant of temp_file: the text is written into the target itself
temp_file_in_place == "target"

\* safe_write_file, `temp_file = file_path.with_suffix(suffix + '.tmp')`:
\* the file the text is written to
temp_file == "tmp"

\* the file `path` gets `content`, the other file stays
PutFile(path, content) ==
    IF path = "target"
    THEN cfgFile' = content /\ tmpFile' = tmpFile
    ELSE tmpFile' = content /\ cfgFile' = cfgFile

\* save_config(config) reaches `open(temp_file, 'w')`
SafeWriteOpen(config) ==
    /\ wr = Idle
    /\ wr' = [pc |-> "open", content |-> YamlDump(ConfigToDict(config)),
              config |-> config, old |-> cfgFile]
    /\ PutFile(temp_file, EmptyText)
    /\ UNCHANGED <<setFile, bakFile, cfgCache, setCache, now, faults, last>>

\* `f.write(content)`: a first piece of the text reaches the file
SafeWriteChunk ==
    /\ wr.pc = "open"
    /\ wr' = [wr EXCEPT !.pc = "partial"]
    /\ PutFile(temp_file, Partial(wr.content))
    /\ UNCHANGED <<setFile, bakFile, cfgCache, setCache, now, faults, last>>

\* the end of the `with` block: the whole text is in the file
SafeWriteClose ==
    /\ wr.pc \in {"open", "partial"}
    /\ wr' = [wr EXCEPT !.pc = "closed"]
    /\ PutFile(temp_file, wr.content)
    /\ UNCHANGED <<setFile, bakFile, cfgCache, setCache, now, faults, last>>

\* `temp_file.replace(file_path)`, then save_config sets the cache
SafeWriteReplace ==
    /\ wr.pc = "closed"
    /\ wr' = Idle
    /\ IF temp_file = "target"
       THEN UNCHANGED <<cfgFile, tmpFile>>
       ELSE cfgFile' = tmpFile /\ tmpFile' = Absent
    /\ cfgCache' = wr.config
    /\ last' = Call("save_config", NoErr, NoObject)
    /\ UNCHANGED <<setFile, bakFile, setCache, now, faults>>

\* the process is interrupted during the write; a new Manager starts over
\* the files as they are
Interrupt ==
    /\ wr # Idle
    /\ wr' = Idle
    /\ cfgCache' = NoObject
    /\ setCache' = NoObject
    /\ last' = Call("interrupt", NoErr, [kind |-> "write", old |-> wr.old,
                                          content |-> wr.content])
    /\ UNCHANGED <<cfgFile, tmpFile, setFile, bakFile, now, faults>>

WriteInputs ==
    [createNames |-> {"prod"},
     names |-> {"prod"},
     createEnvs |-> {EnvA},
     createDescriptions |-> {None},
     updateEnvs |-> {EmptyDict},
     updateDescriptions |-> {None},
     faults |-> {"none"}]

NextWrite ==
    \/ NextOver(WriteInputs)
    \/ \E config \in WriteConfigs : SafeWriteOpen(config)
    \/ SafeWriteChunk
    \/ SafeWriteClose
    \/ SafeWriteReplace
    \/ Interrupt

SpecWrite == InitOrder /\ [][NextWrite]_vars

(***************************************************************************)
(* What the claims speak of.                                               *)
(***************************************************************************)
\* the collection a Manager-readable profile document denotes
DocCollection(file) ==
    [kind |-> "config",
     profiles |-> [i \in 1..Len(file.data.profiles) |->
                     [name |-> file.data.profiles[i].name,
                      env |-> file.data.profiles[i].env,
                      description |-> file.data.profiles[i].description,
                      created |-> file.data.profiles[i].created[2],
                      modified |-> file.data.profiles[i].modified[2]]],
     default_profile |-> file.data.default_profile]

\* the collection the Manager works on: its cache, else the document
Collection(cache, file) ==
    IF cache.kind # "none" THEN cache
    ELSE IF file.kind = "yaml" THEN DocCollection(file)
    ELSE EmptyConfig

\* the settings env the Manager works on: its cache, else the document
SettingsEnv(cache, file) == IF cache.kind # "none" THEN cache.env ELSE file.data.env

\* the env of the profile called name
EnvOf(cfg, name) == cfg.profiles[IndexOf(cfg, name)].env

Succeeded(op) == last'.op = op /\ last'.err = NoErr

NonPrefixed(env) == {k \in DOMAIN env : ~StartsWithAnthropic(k)}

(***************************************************************************)
(* C1 (as amended).  After a successful apply_profile(P) the settings env, *)
(* in the cache and in the settings document, is exactly: every key of the *)
(* previous settings env that does not start with ANTHROPIC_, with its     *)
(* previous value; every other key of P's env with P's value; and          *)
(* API_TIMEOUT_MS = "600000" if neither holds that key.  A key outside the *)
(* ANTHROPIC_ namespace that both hold keeps the previous settings value.  *)
(***************************************************************************)
C1_Expected(penv, senv) ==
    [k \in (DOMAIN penv) \cup NonPrefixed(senv) \cup {"API_TIMEOUT_MS"} |->
        IF k \in NonPrefixed(senv) THEN senv[k]
        ELSE IF k \in DOMAIN penv THEN penv[k]
        ELSE "600000"]

C1_ApplyMergesEnv ==
    [][\A n \in MoreNames :
         (Succeeded("apply_profile") /\ \E f \in AllFaults : ApplyProfile(n, f))
         => LET penv == EnvOf(Collection(cfgCache, cfgFile), n)
                senv == SettingsEnv(setCache, setFile)
            IN  /\ setCache'.env = C1_Expected(penv, senv)
                /\ setFile'.data.env = C1_Expected(penv, senv)]_vars

\* C1 witness: a profile that sets OTHER_VAR itself has been applied over
\* settings that held OTHER_VAR, and the settings' value is the one in force
C1_Witness ==
    /\ last.op = "apply_profile" /\ last.err = NoErr
    /\ cfgCache.kind = "config"
    /\ cfgCache.default_profile # None
    /\ EnvOf(cfgCache, cfgCache.default_profile) = EnvB
    /\ setFile.kind = "json"
    /\ setFile.data.env["OTHER_VAR"] = "keep-me"
    /\ "ANTHROPIC_AUTH_TOKEN" \notin DOMAIN setFile.data.env

(***************************************************************************)
(* C1 (as stated).  After a successful apply_profile(P) the settings env   *)
(* holds every key/value of P's env, every non-ANTHROPIC_ key of the       *)
(* previous settings env with its previous value, API_TIMEOUT_MS =         *)
(* "600000" if otherwise absent, and nothing else.                         *)
(***************************************************************************)
C1_Original ==
    [][\A n \in MoreNames :
         (Succeeded("apply_profile") /\ \E f \in AllFaults : ApplyProfile(n, f))
         => LET penv == EnvOf(Collection(cfgCache, cfgFile), n)
                senv == SettingsEnv(setCache, setFile)
                env == setCache'.env
            IN  /\ \A k \in DOMAIN penv : k \in DOMAIN env /\ env[k] = penv[k]
                /\ \A k \in NonPrefixed(senv) : k \in DOMAIN env /\ env[k] = senv[k]
                /\ DOMAIN env = (DOMAIN penv) \cup NonPrefixed(senv) \cup {"API_TIMEOUT_MS"}
                /\ ("API_TIMEOUT_MS" \notin (DOMAIN penv) \cup NonPrefixed(senv))
                      => env["API_TIMEOUT_MS"] = "600000"]_vars

(***************************************************************************)
(* C2.  After a successful apply_profile(name) the collection's            *)
(* default_profile is name, in the Manager's cached collection and in the  *)
(* persisted profile document.                                             *)
(***************************************************************************)
C2_ApplySetsDefault ==
    [][\A n \in MoreNames :
         (Succeeded("apply_profile") /\ \E f \in AllFaults : ApplyProfile(n, f))
         => /\ cfgCache'.kind = "config"
            /\ cfgCache'.default_profile = n
            /\ cfgFile'.kind = "yaml"
            /\ cfgFile'.data.default_profile = n]_vars

\* C2 witness: the second of two profiles has been applied and is the default
C2_Witness ==
    /\ last.op = "apply_profile" /\ last.err = NoErr
    /\ cfgCache.kind = "config"
    /\ Len(cfgCache.profiles) = 2
    /\ cfgCache.default_profile = cfgCache.profiles[2].name
    /\ cfgFile.kind = "yaml"
    /\ cfgFile.data.default_profile = cfgCache.profiles[2].name

(***************************************************************************)
(* C3.  When delete_profile removes the profile that is the default,       *)
(* default_profile becomes the name of the first remaining profile in      *)
(* collection order, or None if none remains; removing another profile     *)
(* leaves default_profile unchanged.  Cache and document agree.            *)
(***************************************************************************)
C3_Remaining(cfg, n) == SelectSeq(cfg.profiles, LAMBDA p : p.name # n)

C3_DeleteReassignsDefault ==
    [][\A n \in MoreNames :
         (Succeeded("delete_profile") /\ \E f \in AllFaults : DeleteProfile(n, f))
         => LET c == Collection(cfgCache, cfgFile)
                rest == C3_Remaining(c, n)
                expected == IF c.default_profile # n THEN c.default_profile
                            ELSE IF Len(rest) > 0 THEN rest[1].name
                            ELSE None
            IN  /\ cfgCache'.default_profile = expected
                /\ cfgFile'.data.default_profile = expected
                /\ cfgCache'.profiles = rest]_vars

\* C3 witness: after a delete two profiles remain, "dev" is gone and the
\* default is the first of the two
C3_Witness ==
    /\ last.op = "delete_profile" /\ last.err = NoErr
    /\ cfgCache.kind = "config"
    /\ Len(cfgCache.profiles) = 2
    /\ "dev" \notin ProfileNames(cfgCache)
    /\ cfgCache.default_profile = cfgCache.profiles[1].name
    /\ cfgFile.data.default_profile = cfgCache.profiles[1].name

(***************************************************************************)
(* C4.  create_profile with a valid name and a valid env whose name is     *)
(* already in the loaded collection raises ProfileExistsError; the profile *)
(* document is untouched and so is the collection the Manager holds (a     *)
(* cache that was empty holds the collection just read from the document). *)
(***************************************************************************)
\* the create_profile arguments that pass both validations
C4_ValidCreates ==
    {c \in OrderInputs.createNames \X OrderInputs.createEnvs :
        /\ validate_profile_name(c[1]) = None
        /\ validate_environment_vars(c[2], FALSE) = None}

C4_DuplicateCreateFails ==
    [][last'.op = "create_profile" =>
         \A c \in C4_ValidCreates, d \in OrderInputs.createDescriptions,
            f \in OrderInputs.faults :
           (/\ c[1] \in ProfileNames(Collection(cfgCache, cfgFile))
            /\ CreateProfile(c[1], c[2], d, f))
           => /\ last'.err = Err("ProfileExistsError", c[1])
              /\ cfgFile' = cfgFile
              /\ cfgCache' = Collection(cfgCache, cfgFile)]_vars

\* C4 witness: a create has just been refused for a name that is taken
C4_Witness ==
    /\ last.op = "create_profile"
    /\ last.err.kind = "ProfileExistsError"
    /\ last.err.names \in ProfileNames(Collection(cfgCache, cfgFile))

(***************************************************************************)
(* C5.  load_config() on an absent profile document returns an empty       *)
(* collection and writes the document holding that collection;             *)
(* load_settings() on an absent settings document raises SettingsFileError *)
(* and leaves the settings document absent.                                *)
(***************************************************************************)
C5_EmptyDocument == [kind |-> "yaml", data |-> [profiles |-> <<>>, default_profile |-> None]]

C5_AsymmetricInit ==
    [][/\ (last'.op = "load_config" /\ cfgFile = Absent /\ cfgCache = NoObject)
          => /\ last'.err = NoErr
             /\ last'.ret = EmptyConfig
             /\ cfgFile' = C5_EmptyDocument
       /\ (last'.op = "load_settings" /\ setFile = Absent)
          => /\ last'.err.kind = "SettingsFileError"
             /\ setFile' = Absent
             /\ setCache' = NoObject]_vars

\* C5 witness: load_settings has failed on the absent settings document
\* after load_config created the profile document
C5_Witness ==
    /\ last.op = "load_settings"
    /\ last.err.kind = "SettingsFileError"
    /\ setFile = Absent
    /\ cfgFile = C5_EmptyDocument
    /\ cfgCache = EmptyConfig

(***************************************************************************)
(* C6 (as amended).  ProfileConfig.from_dict takes default_profile from    *)
(* the document as it is.  The Manager's operations keep the property:     *)
(* when, before an operation, default_profile is absent or names a profile *)
(* of the collection, in the cached collection and in the collection the   *)
(* profile document deserializes to, the same is true after it.            *)
(***************************************************************************)
C6_DefaultNamesProfile(c) ==
    c.default_profile = None \/ c.default_profile \in ProfileNames(c)

\* what from_dict makes of a document: its profiles and its default_profile
C6_DocCollection(data) ==
    [profiles |-> IF "profiles" \in DOMAIN data THEN data.profiles ELSE <<>>,
     default_profile |-> DictGet(data, "default_profile", None)]

C6_Held ==
    /\ cfgCache.kind = "config" => C6_DefaultNamesProfile(cfgCache)
    /\ cfgFile.kind = "yaml" => C6_DefaultNamesProfile(C6_DocCollection(cfgFile.data))

C6_OperationsKeepDefault == [][C6_Held => C6_Held']_vars

\* C6 witness: the default profile has been deleted and the default has
\* passed to the profile that remains
C6_Witness ==
    /\ last.op = "delete_profile" /\ last.err = NoErr
    /\ cfgCache.kind = "config"
    /\ Len(cfgCache.profiles) = 1
    /\ cfgCache.default_profile = cfgCache.profiles[1].name
    /\ cfgFile = YamlDump(ConfigToDict(cfgCache))
    /\ C6_Held

\* C6 as stated: every collection the Manager holds has a default that is
\* absent or names one of its profiles
C6_Original ==
    cfgCache.kind = "config" => C6_DefaultNamesProfile(cfgCache)

(***************************************************************************)
(* C7.  From an absent or empty profile document, after any sequence of    *)
(* Manager operations no two profiles of the cached collection, and no two *)
(* profiles of the persisted document, share a name.                       *)
(***************************************************************************)
C7_NamesDistinct(profiles) ==
    \A i, j \in 1..Len(profiles) : i # j => profiles[i].name # profiles[j].name

C7_UniqueNames ==
    /\ cfgCache.kind = "config" => C7_NamesDistinct(cfgCache.profiles)
    /\ cfgFile.kind = "yaml" => C7_NamesDistinct(cfgFile.data.profiles)

\* C7 witness: two profiles are held and a create under a name in use has
\* just been attempted
C7_Witness ==
    /\ last.op = "create_profile" /\ last.err.kind = "ProfileExistsError"
    /\ cfgCache.kind = "config" /\ Len(cfgCache.profiles) = 2
    /\ cfgFile.kind = "yaml" /\ Len(cfgFile.data.profiles) = 2

(***************************************************************************)
(* C8.  A successful create_profile(name, ...) sets default_profile to     *)
(* name when the collection held no profile before the call and leaves     *)
(* default_profile unchanged when it held one; in both cases the persisted *)
(* document is the whole collection, the new profile included.             *)
(***************************************************************************)
C8_CreateSetsFirstDefault ==
    [][\A n \in CoreInputs.createNames, e \in CoreInputs.createEnvs,
          d \in CoreInputs.createDescriptions, f \in CoreInputs.faults :
         (Succeeded("create_profile") /\ CreateProfile(n, e, d, f))
         => LET c == Collection(cfgCache, cfgFile) IN
            /\ Len(c.profiles) = 0 => cfgCache'.default_profile = n
            /\ Len(c.profiles) > 0 => cfgCache'.default_profile = c.default_profile
            /\ Len(cfgCache'.profiles) = Len(c.profiles) + 1
            /\ \A i \in 1..Len(c.profiles) : cfgCache'.profiles[i] = c.profiles[i]
            /\ cfgCache'.profiles[Len(c.profiles) + 1] =
                  [name |-> n, env |-> e, description |-> d,
                   created |-> now, modified |-> now]
            /\ cfgFile' = YamlDump(ConfigToDict(cfgCache'))]_vars

\* C8 witness: a second profile has been created and the first one is
\* still the default
C8_Witness ==
    /\ last.op = "create_profile" /\ last.err = NoErr
    /\ cfgCache.kind = "config" /\ Len(cfgCache.profiles) = 2
    /\ cfgCache.default_profile = cfgCache.profiles[1].name
    /\ cfgFile = YamlDump(ConfigToDict(cfgCache))

(***************************************************************************)
(* C9.  A successful update_profile(name, env_vars) leaves the profile's   *)
(* env equal to its previous env overridden by env_vars; the profile's     *)
(* name and created time, default_profile, and every other profile stay as *)
(* they were.                                                              *)
(***************************************************************************)
C9_UpdateMergesEnv ==
    [][\A n \in CoreInputs.names, e \in CoreInputs.updateEnvs,
          d \in CoreInputs.updateDescriptions, f \in CoreInputs.faults :
         (Succeeded("update_profile") /\ UpdateProfile(n, e, d, f))
         => LET c == Collection(cfgCache, cfgFile)
                i == IndexOf(c, n)
                p == cfgCache'.profiles[i]
            IN  /\ DOMAIN p.env = DOMAIN c.profiles[i].env \cup DOMAIN e
                /\ \A k \in DOMAIN p.env :
                      p.env[k] = IF k \in DOMAIN e THEN e[k] ELSE c.profiles[i].env[k]
                /\ p.name = n
                /\ p.created = c.profiles[i].created
                /\ d = None => p.description = c.profiles[i].description
                /\ cfgCache'.default_profile = c.default_profile
                /\ Len(cfgCache'.profiles) = Len(c.profiles)
                /\ \A j \in 1..Len(c.profiles) :
                      j # i => cfgCache'.profiles[j] = c.profiles[j]
                /\ cfgFile' = YamlDump(ConfigToDict(cfgCache'))]_vars

\* C9 witness: of two profiles the second has been updated to hold the
\* merged env, the first still holds the env it was created with
C9_Witness ==
    /\ last.op = "update_profile" /\ last.err = NoErr
    /\ cfgCache.kind = "config" /\ Len(cfgCache.profiles) = 2
    /\ cfgCache.profiles[1].env = EnvA
    /\ cfgCache.profiles[2].env = EnvB
    /\ cfgCache.profiles[2].modified > cfgCache.profiles[2].created

(***************************************************************************)
(* C10.  Every failure of apply_profile(name), at whichever step, reaches  *)
(* the caller as SettingsFileError naming the profile.                     *)
(***************************************************************************)
C10_ApplyErrorsWrapped ==
    [][\A n \in MoreNames, f \in AllFaults :
         (last'.op = "apply_profile" /\ last'.err # NoErr /\ ApplyProfile(n, f))
         => last'.err = Err("SettingsFileError", n)]_vars

\* C10 witness: apply_profile of a profile that exists has failed on the
\* file system, the settings document being as it was found
C10_Witness ==
    /\ last.op = "apply_profile"
    /\ last.err = Err("SettingsFileError", "dev")
    /\ cfgCache.kind = "config"
    /\ "dev" \in ProfileNames(cfgCache)
    /\ setFile = SettingsDoc1
    /\ faults = 1

(***************************************************************************)
(* C11.  As stated, for a call that starts with the collection cached: if  *)
(* create_profile, update_profile, delete_profile or set_default_profile   *)
(* fails, the cached collection and the profile document are what they     *)
(* were before the call.                                                   *)
(***************************************************************************)
C11_Mutators ==
    {"create_profile", "update_profile", "delete_profile", "set_default_profile"}

C11_Original ==
    [][(/\ last'.op \in C11_Mutators
        /\ last'.err # NoErr
        /\ cfgCache.kind = "config")
       => /\ cfgCache' = cfgCache
          /\ cfgFile' = cfgFile]_vars

(***************************************************************************)
(* C12.  apply_profile writes the settings document before the profile    *)
(* document and does not roll back: a changed default_profile is persisted *)
(* only in a call whose settings write succeeded, and when the write of    *)
(* the profile document is refused the settings document holds the newly   *)
(* applied env while the profile document is as it was.                    *)
(***************************************************************************)
C12_SettingsBeforeDefault ==
    [][last'.op = "apply_profile" =>
         \A n \in ApplyInputs.names, f \in ApplyInputs.faults :
           ApplyProfile(n, f)
           => LET c == Collection(cfgCache, cfgFile)
                  known == n \in ProfileNames(c)
                  applied == ApplyMerge(EnvOf(c, n), SettingsEnv(setCache, setFile))
              IN  /\ (/\ cfgFile.kind = "yaml"
                      /\ cfgFile'.data.default_profile # cfgFile.data.default_profile)
                     => /\ setCache'.env = applied
                        /\ setFile' = JsonDumps(SettingsToDict(setCache'))
                        /\ bakFile' = setFile
                  /\ (f = "cfg_write" /\ known)
                     => /\ last'.err = Err("SettingsFileError", n)
                        /\ setFile'.data.env = applied
                        /\ cfgFile' = cfgFile]_vars

\* C12 witness: applying "prod" failed on the profile document; the settings
\* document holds prod's env, the persisted default is still "dev"
C12_Witness ==
    /\ last.op = "apply_profile"
    /\ last.err = Err("SettingsFileError", "prod")
    /\ cfgCache.kind = "config"
    /\ ProfileNames(cfgCache) = {"dev", "prod"}
    /\ EnvOf(cfgCache, "dev") = EnvA
    /\ EnvOf(cfgCache, "prod") = EnvC
    /\ setFile.data.env["ANTHROPIC_MODEL"] = "m2"
    /\ bakFile = SettingsDoc1
    /\ cfgFile.data.default_profile = "dev"

(***************************************************************************)
(* C13.  get_current_profile() never raises; it returns the name of the    *)
(* first profile, in collection order, whose ANTHROPIC_MODEL equals the    *)
(* ANTHROPIC_MODEL of the current settings, and None when no profile       *)
(* matches or when the settings or the profile document fails to load.     *)
(***************************************************************************)
C13_Matches(profiles, env) ==
    {i \in 1..Len(profiles) :
        DictGet(profiles[i].env, "ANTHROPIC_MODEL", None)
          = DictGet(env, "ANTHROPIC_MODEL", None)}

C13_Expected(profiles, env) ==
    IF C13_Matches(profiles, env) = {} THEN NoObject
    ELSE Str(profiles[CHOOSE i \in C13_Matches(profiles, env) :
                        \A j \in C13_Matches(profiles, env) : i <= j].name)

C13_CurrentProfile ==
    [][last'.op = "get_current_profile" =>
         \A f \in QueryInputs.faults :
           GetCurrentProfile(f)
           => LET ls == load_settings(setCache, setFile, f)
                  l == load_config(cfgCache, cfgFile, f, now)
              IN  /\ last'.err = NoErr
                  /\ last'.ret = IF ls.err # NoErr \/ l.err # NoErr THEN NoObject
                                 ELSE C13_Expected(l.cfg.profiles, ls.settings.env)]_vars

\* C13 witness: two profiles carry the model of the settings, "dev" was the
\* one applied, and the query has answered "prod", the first of the two
C13_Witness ==
    /\ last.op = "get_current_profile"
    /\ last.ret = Str("prod")
    /\ cfgCache.kind = "config"
    /\ Len(cfgCache.profiles) = 2
    /\ cfgCache.profiles[1].name = "prod"
    /\ cfgCache.profiles[1].env["ANTHROPIC_MODEL"] = "m1"
    /\ cfgCache.profiles[2].env["ANTHROPIC_MODEL"] = "m1"
    /\ cfgCache.default_profile = "dev"
    /\ setCache.kind = "settings"
    /\ setCache.env["ANTHROPIC_MODEL"] = "m1"

C15_Original ==
    [][last'.op = "update_profile" =>
         \A n \in FaultInputs.names, f \in FaultInputs.faults :
           (/\ n \in ProfileNames(Collection(cfgCache, cfgFile))
            /\ UpdateProfile(n, EmptyDict, None, f))
           => LET c == Collection(cfgCache, cfgFile) IN
              /\ f = "cfg_write" => last'.err.kind = "ConfigurationError"
              /\ last'.err = NoErr
                 => /\ get_profile(cfgCache', n) = get_profile(c, n)
                    /\ cfgFile' = cfgFile]_vars

(***************************************************************************)
(* C16.  As stated: for every Profile P the Manager holds,                 *)
(* from_dict(to_dict(P)) is a Profile equal to P in name, env,             *)
(* description, created and modified.                                      *)
(***************************************************************************)
C16_RoundTrip(p) ==
    LET r == ProfileFromDict(ProfileToDict(p), now) IN
    r.err = None /\ r.profile = p

C16_Original ==
    cfgCache.kind = "config"
    => \A i \in 1..Len(cfgCache.profiles) : C16_RoundTrip(cfgCache.profiles[i])

(***************************************************************************)
(* C17.  When the profile document (the settings document) was replaced on *)
(* disk by another program after the Manager loaded it, the Manager's next *)
(* save of it is not rejected and writes the Manager's in-memory state:    *)
(* the document afterwards is the serialisation of the cache and holds     *)
(* nothing of the external modification.                                   *)
(***************************************************************************)
C17_HasExternal(c) == \E i \in 1..Len(c.profiles) : c.profiles[i].description = "external"

C17_LastWriterWins ==
    [][/\ (/\ last'.op \in C11_Mutators
           /\ last'.err = NoErr
           /\ cfgCache.kind = "config" /\ ~C17_HasExternal(cfgCache)
           /\ cfgFile = DocExternal)
          => /\ cfgFile' = YamlDump(ConfigToDict(cfgCache'))
             /\ cfgFile' # DocExternal
             /\ ~C17_HasExternal(ConfigFromDict(cfgFile'.data, now).cfg)
       /\ \A n \in ExtInputs.names :
            (/\ ApplyProfile(n, "none")
             /\ cfgCache.kind = "config" /\ n \in ProfileNames(cfgCache)
             /\ setCache.kind = "settings" /\ "EXT_VAR" \notin DOMAIN setCache.env
             /\ setFile = SettingsExternal)
            => /\ last'.err = NoErr
               /\ setFile' = JsonDumps(SettingsToDict(setCache'))
               /\ "EXT_VAR" \notin DOMAIN setFile'.data.env
               /\ bakFile' = SettingsExternal]_vars

C17_Witness ==
    /\ last.op = "apply_profile" /\ last.err = NoErr
    /\ bakFile = SettingsExternal
    /\ setFile = JsonDumps(SettingsToDict(setCache))
    /\ "EXT_VAR" \notin DOMAIN setFile.data.env
    /\ cfgFile.kind = "yaml" /\ cfgFile # DocExternal
    /\ cfgCache.profiles # <<>>
    /\ cfgCache.profiles[1].name = "dev"

(***************************************************************************)
(* C18.  As stated: after a successful apply_profile the settings env has  *)
(* API_TIMEOUT_MS "600000" when the applied profile's env does not specify *)
(* API_TIMEOUT_MS, and the profile's value when it does.                   *)
(***************************************************************************)
C18_Original ==
    [][(last'.op = "apply_profile" /\ last'.err = NoErr) =>
         \A n \in CoreInputs.names :
           ApplyProfile(n, "none")
           => LET penv == EnvOf(Collection(cfgCache, cfgFile), n)
                  senv == setCache'.env
              IN  /\ "API_TIMEOUT_MS" \in DOMAIN senv
                  /\ senv.API_TIMEOUT_MS =
                       IF "API_TIMEOUT_MS" \in DOMAIN penv
                       THEN penv.API_TIMEOUT_MS
                       ELSE "600000"]_vars

(***************************************************************************)
(* C19.  As stated: a cache becomes Loaded on every successful load_* or   *)
(* save_* and Empty only on clear_cache; after a successful load_config    *)
(* the config cache holds the returned collection, after a successful      *)
(* load_settings the settings cache holds the returned settings.           *)
(***************************************************************************)
C19_Original ==
    [][/\ (last'.op = "load_config" /\ last'.err = NoErr) => cfgCache' = last'.ret
       /\ (last'.op = "load_settings" /\ last'.err = NoErr) => setCache' = last'.ret
       /\ (cfgCache # NoObject /\ cfgCache' = NoObject) => last'.op = "clear_cache"
       /\ (setCache # NoObject /\ setCache' = NoObject) => last'.op = "clear_cache"]_vars

(***************************************************************************)
(* C20.  As stated: every update_env call on a profile leaves modified     *)
(* strictly greater than it was before the call, whatever the clock reads, *)
(* also when it reads no later than the profile's modified.                *)
(***************************************************************************)
C20_Original ==
    [][last'.op = "update_profile" =>
         \A n \in ClockInputs.names, e \in ClockInputs.updateEnvs \ {EmptyDict} :
           (UpdateProfile(n, e, None, "none") /\ last'.err = NoErr)
           => get_profile(cfgCache', n).modified
                > get_profile(Collection(cfgCache, cfgFile), n).modified]_vars

(***************************************************************************)
(* C21.  As stated: a successful update_profile(name, description = d)     *)
(* that changes the profile's description leaves the profile's modified    *)
(* strictly greater than it was before the call.                           *)
(***************************************************************************)
C21_Original ==
    [][last'.op = "update_profile" =>
         \A n \in FaultInputs.names, d \in FaultInputs.updateDescriptions \ {None} :
           (/\ UpdateProfile(n, EmptyDict, d, "none")
            /\ last'.err = NoErr
            /\ get_profile(Collection(cfgCache, cfgFile), n).description # d)
           => get_profile(cfgCache', n).modified
                > get_profile(Collection(cfgCache, cfgFile), n).modified]_vars

(***************************************************************************)
(* C22.  As stated: no profile of a loaded collection has one of the four  *)
(* required env keys missing or with an empty value.                       *)
(***************************************************************************)
C22_Original ==
    cfgCache.kind = "config"
    => \A i \in 1..Len(cfgCache.profiles) : \A var \in RequiredSet :
         /\ var \in DOMAIN cfgCache.profiles[i].env
         /\ cfgCache.profiles[i].env[var] # ""

(***************************************************************************)
(* C23.  Whenever save_settings succeeds (called directly or by            *)
(* apply_profile) and a settings file existed beforehand, the backup file  *)
(* afterwards holds the settings file's content from immediately before    *)
(* the save; when no settings file existed, no backup file is created (the *)
(* backup file is as it was).                                              *)
(***************************************************************************)
C23_Saved ==
    \/ \E s \in {SettingsA, SettingsB}, f \in BackupInputs.faults : SaveSettings(s, f)
    \/ \E n \in BackupInputs.names, f \in BackupInputs.faults : ApplyProfile(n, f)

C23_BackupBeforeOverwrite ==
    [][(last'.op \in {"save_settings", "apply_profile"} /\ last'.err = NoErr /\ C23_Saved)
       => /\ setFile.kind # "absent" => bakFile' = setFile
          /\ setFile.kind = "absent" => bakFile' = bakFile
          /\ setFile' = JsonDumps(SettingsToDict(setCache'))]_vars

C23_Witness ==
    /\ last.op = "save_settings" /\ last.err = NoErr
    /\ setFile = JsonDumps(SettingsToDict(SettingsB))
    /\ bakFile = JsonDumps(SettingsToDict(SettingsA))

(***************************************************************************)
(* C24.  As stated: load_config on a profile document that is empty, or    *)
(* whose YAML is null, a scalar or a list, returns an empty collection     *)
(* without raising; it raises ConfigurationError only on malformed YAML.   *)
(***************************************************************************)
C24_Original ==
    [][(last'.op = "load_config" /\ LoadConfig("none") /\ cfgCache = NoObject)
       => /\ cfgFile.kind \in {"empty", "null", "scalar"}
             => last'.err = NoErr /\ last'.ret = EmptyConfig
          /\ last'.err # NoErr
             => last'.err.kind = "ConfigurationError" /\ cfgFile.kind = "malformed"]_vars

(***************************************************************************)
(* C25.  During a write of the profile document by safe_write_file, at     *)
(* every point where the process may be interrupted the target is absent   *)
(* or holds its complete previous content, or holds the complete new       *)
(* content: the target never holds a partial text, it changes only by the  *)
(* replace step and then to the whole new text, and after an interruption  *)
(* it is the previous or the new content.                                  *)
(***************************************************************************)
C25_Complete(file) == file.kind \notin {"partial"}

C25_NeverPartial ==
    [][/\ C25_Complete(cfgFile')
       /\ (wr # Idle /\ wr' # Idle) => cfgFile' = wr.old
       /\ (wr # Idle /\ cfgFile' # cfgFile) => (wr.pc = "closed" /\ cfgFile' = wr.content)
       /\ Interrupt => cfgFile' = wr.old]_vars

C25_Witness ==
    /\ last.op = "interrupt"
    /\ tmpFile = Partial(YamlDump(ConfigToDict(ConfigOne)))
    /\ cfgFile = YamlDump(ConfigToDict(EmptyConfig))
    /\ wr = Idle

(***************************************************************************)
(* C26.  As stated: the profile document persisted by a successful         *)
(* create_profile or update_profile can be read back: after clear_cache,   *)
(* load_config succeeds and returns a collection equal to the one saved.   *)
(***************************************************************************)
C26_Original ==
    [][(last'.op \in {"create_profile", "update_profile"} /\ last'.err = NoErr)
       => LET l == load_config(NoObject, cfgFile', "none", now') IN
          /\ l.err = NoErr
          /\ l.cfg = cfgCache']_vars

(***************************************************************************)
(* C27.  Starting from an absent (or empty) profile document and using     *)
(* only Manager operations, default_profile is absent exactly when the     *)
(* collection is empty, in the cache and in the document; a default that   *)
(* is set names a profile of the collection.                               *)
(***************************************************************************)
C27_DefaultIffNonEmpty(c) ==
    /\ (c.profiles = <<>>) <=> (c.default_profile = None)
    /\ c.default_profile # None
       => \E i \in 1..Len(c.profiles) : c.profiles[i].name = c.default_profile

C27_DefaultSet ==
    /\ cfgCache.kind = "config" => C27_DefaultIffNonEmpty(cfgCache)
    /\ cfgFile.kind = "yaml" => C27_DefaultIffNonEmpty(C6_DocCollection(cfgFile.data))

C27_Witness ==
    /\ last.op = "delete_profile" /\ last.err = NoErr
    /\ cfgCache.kind = "config"
    /\ Len(cfgCache.profiles) = 2
    /\ cfgCache.profiles[1].name = "prod"
    /\ cfgCache.default_profile = "prod"
    /\ cfgFile = YamlDump(ConfigToDict(cfgCache))

(***************************************************************************)
(* C28 (as amended).  get_current_profile called immediately after a       *)
(* successful apply_profile(name) returns the name of the first profile of *)
(* the collection whose ANTHROPIC_MODEL equals that of profile name; it    *)
(* returns name exactly when no earlier profile has the same               *)
(* ANTHROPIC_MODEL.                                                        *)
(***************************************************************************)
C28_AfterApply ==
    /\ last.op = "apply_profile" /\ last.err = NoErr
    /\ last'.op = "get_current_profile"

C28_ModelOf(i) == cfgCache.profiles[i].env.ANTHROPIC_MODEL

C28_ReturnsFirstWithSameModel ==
    [][C28_AfterApply
       => LET k == IndexOf(cfgCache, cfgCache.default_profile)
              first == CHOOSE i \in 1..k :
                         /\ C28_ModelOf(i) = C28_ModelOf(k)
                         /\ \A j \in 1..(i - 1) : C28_ModelOf(j) # C28_ModelOf(k)
          IN  /\ last'.ret = Str(cfgCache.profiles[first].name)
              /\ (last'.ret = Str(cfgCache.default_profile))
                   <=> (\A j \in 1..(k - 1) : C28_ModelOf(j) # C28_ModelOf(k))]_vars

C28_Witness ==
    /\ last.op = "get_current_profile"
    /\ last.ret = Str("prod")
    /\ cfgCache.default_profile = "dev"
    /\ setCache.kind = "settings"
    /\ setCache.env.ANTHROPIC_MODEL = EnvOf(cfgCache, "dev").ANTHROPIC_MODEL
    /\ "API_TIMEOUT_MS" \in DOMAIN setCache.env
    /\ setFile = JsonDumps(SettingsToDict(setCache))
    /\ bakFile = SettingsDoc1

(***************************************************************************)
(* C28 as stated: get_current_profile called immediately after a           *)
(* successful apply_profile(name) returns name.                            *)
(***************************************************************************)
C28_Original ==
    [][C28_AfterApply => last'.ret = Str(cfgCache.default_profile)]_vars

(***************************************************************************)
(* C29.  apply_profile is idempotent: a successful apply_profile(name)     *)
(* that immediately follows a successful apply_profile(name) leaves the    *)
(* settings (env, permissions, statusLine, $schema), in the cache and in   *)
(* the settings document, and the collection with its default_profile, in  *)
(* the cache and in the profile document, as they were after the first.    *)
(***************************************************************************)
C29_ApplyIdempotent ==
    [][(/\ last.op = "apply_profile" /\ last.err = NoErr
        /\ cfgCache.kind = "config"
        /\ ApplyProfile(cfgCache.default_profile, "none"))
       => /\ last'.err = NoErr
          /\ setCache' = setCache
          /\ setFile' = setFile
          /\ cfgCache' = cfgCache
          /\ cfgFile' = cfgFile]_vars

C29_Witness ==
    /\ last.op = "apply_profile" /\ last.err = NoErr
    /\ bakFile = setFile
    /\ setFile = JsonDumps(SettingsToDict(setCache))
    /\ cfgCache.default_profile = "prod"
    /\ setCache.env.ANTHROPIC_MODEL = "m2"
    /\ setCache.env.OTHER_VAR = "keep-me"

(***************************************************************************)
(* C30.  As stated: a successful apply_profile changes only the settings'  *)
(* env and the collection's default_profile: the settings' permissions,    *)
(* statusLine and $schema, and the list of profiles with every field of    *)
(* every profile, are the same after the call as before, in memory and in  *)
(* the persisted documents.                                                *)
(***************************************************************************)
C30_Rest(settings) ==
    [permissions |-> settings.permissions, status_line |-> settings.status_line,
     schema |-> settings.schema]

C30_DocRest(file) ==
    [permissions |-> file.data.permissions, status_line |-> file.data.statusLine,
     schema |-> file.data["$schema"]]

C30_Original ==
    [][(last'.op = "apply_profile" /\ last'.err = NoErr)
       => /\ cfgCache'.profiles = Collection(cfgCache, cfgFile).profiles
          /\ cfgFile.kind = "yaml" => cfgFile'.data.profiles = cfgFile.data.profiles
          /\ C30_Rest(setCache') = C30_Rest(load_settings(setCache, setFile, "none").settings)
          /\ C30_DocRest(setFile') = C30_DocRest(setFile)]_vars

====
